---- MODULE Spec2Model ----
(***************************************************************************)
(* Model of the accident escalation workflow of SafeRide's App component   *)
(* (src/src/components/VehicleVisualization.tsx, lines 166-512).           *)
(*                                                                         *)
(* Every async handler is cut at its awaits: one action per synchronous    *)
(* block.  Time is kept as countdowns of the outstanding setTimeout calls  *)
(* and passes from one timer deadline to the next; calls to supabase and   *)
(* fetch take any time.  The supabase calls report a failure in the value  *)
(* they return ({ error }), fetch reports it by rejecting.  React state    *)
(* (activeAccident) is distinguished from the value captured by the        *)
(* closures of the last committed render (rendered).  The history of the   *)
(* detector is not kept: the output of detectWithHistory is an input of    *)
(* each reading.                                                           *)
(*                                                                         *)
(* Spec and FairSpec follow the escalation workflow.  The data side of     *)
(* handleNewData has specifications of its own, over the same variables:   *)
(* OverrideSpec (the decision as a function of vehicle type, z and base    *)
(* result), FilterSpec (lowPassFilter applied to a constant input),        *)
(* StreamSpec (connection monitor, stored readings, fetchHistory and the   *)
(* re-runs of the data effect, on a clock in ms) and HeartbeatSpec (the    *)
(* connection monitor without the re-runs).                                *)
(***************************************************************************)
EXTENDS Integers, Sequences, FiniteSets, TLC

\* ---- bounds of the model ------------------------------------------------
\* number of accidents that handleNewData may trigger in one run
MaxEvents == 3

\* ms for which the data stream and the heartbeat are followed
MaxTime == 11000
\* rows of sensor_data in one run, the one stored before the mount included
MaxRows == 2
\* runs of the data effect in one run, the one of the mount included
MaxEffectRuns == 2
\* applications of lowPassFilter to one constant input
MaxSmooth == 3

\* ---- program constants (milliseconds) -----------------------------------
EscalationDelay == 30000
Cooldown == 5000
\* period of the heartbeat interval
HeartbeatPeriod == 1000
\* threshold of the heartbeat
Threshold == 10000
\* age below which fetchHistory calls a loaded reading fresh
FreshAge == 10000

\* the i-th call of handleAccidentDetected creates the accident_logs row of id i
Ids == 1..MaxEvents

\* ---- inputs ------------------------------------------------------------
VehicleTypes == {"scooter", "car"}
\* smoothed accelerometer z of a reading, in thousandths of g: upright, and lying on the side
ZValues == {1000, 350}
\* outputs of detectWithHistory
BaseResults == {[isAccident |-> FALSE, dangerPercentage |-> 10],
                [isAccident |-> TRUE, dangerPercentage |-> 85]}
NoEvent == 0

VARIABLES
  activeAccident,     \* useState activeAccident: NoEvent (null) or the id of the accident_logs row
  rendered,           \* activeAccident as captured by the closures of the last committed render
  isTriggered,        \* useRef isTriggered
  accidentTimeoutRef, \* useRef accidentTimeoutRef: NoEvent (null) or the handle of an escalation timer
  det,                \* det[i]: position of the handleAccidentDetected invocation of accident i
  settings,           \* settings[i]: result of the user_settings select of invocation i
  created,            \* created[i]: the insert of invocation i produced accident_logs row i
  timer,              \* timer[i]: escalation timer of invocation i, [st, rem, age]: its state,
                      \* the ms until it is due and the ms passed since it was armed
  sea,                \* sea[i]: position of sendEmergencyAlerts(i)
  cancelling,         \* cancelling[i]: handleCancelAccident calls awaiting the 'cancelled' update of row i
  rearm,              \* outstanding re-arm timers (remaining ms), in the order they were set
  userAlerts,         \* userAlerts[i]: user_confirmation requests issued for row i
  emergencyAlerts,    \* emergencyAlerts[i]: emergency_alert requests issued for row i
  updates,            \* updates[i]: the status values written to row i by an update
  resolved,           \* resolved[i]: the local resolutions (setActiveAccident(null) + re-arm) made for row i
  sinceResolution     \* ms since the last local resolution, saturating at Cooldown

\* the data stream: connection monitor, stored readings and the data effect
VARIABLES
  isConnected,        \* useState isConnected
  now,                \* Date.now(), in ms since the mount
  lastPacketTimeRef,  \* useRef lastPacketTimeRef
  heartbeatDue,       \* the time of the next callback of heartbeatInterval
  sensorRows,         \* sensorRows[k]: created_at of the k-th row of sensor_data
  fetching,           \* the results of the getLatestSensorData calls in flight (0: null, k: row k)
  applied,            \* the rows passed to handleNewData (smoothing and addReading), in order
  effectRuns          \* runs of the data effect so far

\* one decision of handleNewData
VARIABLES
  detectInput,        \* [vehicleType, zValue, result]: the inputs of the decision
  decision            \* <<>>, or <<[shouldTrigger, finalDanger]>> once the decision is made

\* the smoothing of one axis
VARIABLES
  rawAccel,           \* raw.accelerometer of the readings: a constant input
  prevAccel,          \* useRef prevAccel
  smoothAlpha,        \* the alpha passed to lowPassFilter, in tenths
  smoothCount         \* applications of lowPassFilter so far

escalationVars == <<activeAccident, rendered, isTriggered, accidentTimeoutRef, det, settings,
                    created, timer, sea, cancelling, rearm, userAlerts, emergencyAlerts,
                    updates, resolved, sinceResolution>>
streamVars == <<isConnected, now, lastPacketTimeRef, heartbeatDue, sensorRows, fetching,
                applied, effectRuns>>
overrideVars == <<detectInput, decision>>
filterVars == <<rawAccel, prevAccel, smoothAlpha, smoothCount>>
dataVars == <<streamVars, overrideVars, filterVars>>

vars == <<escalationVars, dataVars>>

Max(a, b) == IF a >= b THEN a ELSE b
Min(a, b) == IF a <= b THEN a ELSE b
Abs(a) == IF a >= 0 THEN a ELSE -a

\* the escalation workflow after the construction of App
EscalationInit ==
  /\ activeAccident = NoEvent
  /\ rendered = NoEvent
  /\ isTriggered = FALSE
  /\ accidentTimeoutRef = NoEvent
  /\ det = [i \in Ids |-> "idle"]
  /\ settings = [i \in Ids |-> "unknown"]
  /\ created = [i \in Ids |-> FALSE]
  /\ timer = [i \in Ids |-> [st |-> "unarmed", rem |-> 0, age |-> 0]]
  /\ sea = [i \in Ids |-> "idle"]
  /\ cancelling = [i \in Ids |-> 0]
  /\ rearm = <<>>
  /\ userAlerts = [i \in Ids |-> 0]
  /\ emergencyAlerts = [i \in Ids |-> 0]
  /\ updates = [i \in Ids |-> {}]
  /\ resolved = [i \in Ids |-> {}]
  /\ sinceResolution = Cooldown

\* values in which accelerations are counted: lowPassFilter stays exact for MaxSmooth steps
Unit == 10 ^ MaxSmooth
\* denominator of smoothAlpha
AlphaDen == 10

\* the data stream after the mount, with rows stored before it: the heartbeat interval is set, the
\* data effect has run once and its getLatestSensorData call is in flight
StreamInit(rows) ==
  /\ isConnected = FALSE
  /\ now = 0
  /\ lastPacketTimeRef = 0
  /\ heartbeatDue = HeartbeatPeriod
  /\ sensorRows = rows
  /\ fetching = <<Len(rows)>>
  /\ applied = <<>>
  /\ effectRuns = 1

\* no decision is followed
OverrideIdle ==
  /\ detectInput = [vehicleType |-> "scooter", zValue |-> 1000,
                    result |-> [isAccident |-> FALSE, dangerPercentage |-> 0]]
  /\ decision = <<>>

\* prevAccel = { x: 0, y: 0, z: 1 } and smoothAlpha = 0.3; no smoothing is followed
FilterIdle ==
  /\ rawAccel = Unit
  /\ prevAccel = Unit
  /\ smoothAlpha = 3
  /\ smoothCount = 0

Init ==
  /\ EscalationInit
  /\ StreamInit(<<>>)
  /\ OverrideIdle
  /\ FilterIdle

\* ---- helpers ------------------------------------------------------------

\* setTimeout(() => { isTriggered.current = false; }, 5000)
ScheduleRearm(q) == Append(q, Cooldown)

\* the effect of the passage of d ms on one countdown
Elapse(rem, d) == Max(0, rem - d)

\* ---- handleNewData (the trigger decision) -------------------------------

\* the calls of handleAccidentDetected made so far
Started == {i \in Ids : det[i] # "idle"}

\* Combined with the danger of an override assigned instead of raised
CombinedAssign(vehicleType, zValue, result) ==
  LET isUpsideDown == zValue < -500
      isTippedOver == Abs(zValue) < 400
  IN IF vehicleType = "scooter"
       THEN IF isUpsideDown \/ isTippedOver
              THEN [shouldTrigger |-> TRUE, finalDanger |-> IF isUpsideDown THEN 100 ELSE 80]
              ELSE [shouldTrigger |-> result.isAccident, finalDanger |-> result.dangerPercentage]
       ELSE IF Abs(zValue) < 300
              THEN [shouldTrigger |-> TRUE, finalDanger |-> 90]
              ELSE [shouldTrigger |-> result.isAccident, finalDanger |-> result.dangerPercentage]

\* the vehicle-specific overrides on top of the base DetectionResult
\* (z in thousandths of g, as are the thresholds)
Combined(vehicleType, zValue, result) ==
  LET isUpsideDown == zValue < -500
      isTippedOver == Abs(zValue) < 400
  IN IF vehicleType = "scooter"
       THEN IF isUpsideDown \/ isTippedOver
              THEN [shouldTrigger |-> TRUE,
                    finalDanger |-> IF isUpsideDown THEN 100
                                    ELSE Max(result.dangerPercentage, 80)]
              ELSE [shouldTrigger |-> result.isAccident, finalDanger |-> result.dangerPercentage]
       ELSE IF Abs(zValue) < 300
              THEN [shouldTrigger |-> TRUE, finalDanger |-> Max(result.dangerPercentage, 90)]
              ELSE [shouldTrigger |-> result.isAccident, finalDanger |-> result.dangerPercentage]

\* the guard of the trigger, in the closure that captured activeAccident = closureActive
TriggerGuard(closureActive, shouldTrigger) ==
  shouldTrigger /\ closureActive = NoEvent /\ ~isTriggered

\* isTriggered.current = true; handleAccidentDetected(...) runs up to its first await,
\* the insert into accident_logs
Trigger ==
  /\ Cardinality(Started) < MaxEvents
  /\ isTriggered' = TRUE
  /\ det' = [det EXCEPT ![Cardinality(Started) + 1] = "insert"]

\* handleNewData of the closure that captured activeAccident = closureActive and vehicleType,
\* for a reading with smoothed z = zValue and base detector output = result
handleNewData(closureActive, vehicleType, zValue, result) ==
  /\ IF TriggerGuard(closureActive, Combined(vehicleType, zValue, result).shouldTrigger)
       THEN Trigger
       ELSE UNCHANGED <<isTriggered, det>>
  /\ UNCHANGED <<activeAccident, rendered, accidentTimeoutRef, settings, created,
                 timer, sea, cancelling, rearm, userAlerts, emergencyAlerts, updates, resolved,
                 sinceResolution>>
  /\ UNCHANGED dataVars

\* a reading delivered to the handler subscribed by the last committed effect
Reading(vehicleType, zValue, result) == handleNewData(rendered, vehicleType, zValue, result)

\* ---- handleAccidentDetected ---------------------------------------------

\* InsertReturn without the early return on logError
InsertReturnNoCheck(i, ok) ==
  /\ det[i] = "insert"
  /\ created' = [created EXCEPT ![i] = ok]
  /\ activeAccident' = i
  /\ det' = [det EXCEPT ![i] = "settings"]
  /\ UNCHANGED <<rendered, isTriggered, accidentTimeoutRef, settings, timer, sea,
                 cancelling, rearm, userAlerts, emergencyAlerts, updates, resolved,
                 sinceResolution>>
  /\ UNCHANGED dataVars

\* the accident_logs insert returns: { data: accidentLog, error: logError }
InsertReturn(i, ok) ==
  /\ det[i] = "insert"
  /\ IF ok
       THEN \* setActiveAccident({ id }); the user_settings select is issued
            /\ created' = [created EXCEPT ![i] = TRUE]
            /\ activeAccident' = i
            /\ det' = [det EXCEPT ![i] = "settings"]
       ELSE \* if (logError || !accidentLog) return;
            /\ det' = [det EXCEPT ![i] = "failed"]
            /\ UNCHANGED <<created, activeAccident>>
  /\ UNCHANGED <<rendered, isTriggered, accidentTimeoutRef, settings, timer, sea,
                 cancelling, rearm, userAlerts, emergencyAlerts, updates, resolved,
                 sinceResolution>>
  /\ UNCHANGED dataVars

\* ArmTimer with the delay of the re-arm timer
ArmTimerShort(i) ==
  /\ timer' = [timer EXCEPT ![i] = [st |-> "armed", rem |-> Cooldown, age |-> 0]]
  /\ accidentTimeoutRef' = i

\* accidentTimeoutRef.current = setTimeout(..., 30000)
ArmTimer(i) ==
  /\ timer' = [timer EXCEPT ![i] = [st |-> "armed", rem |-> EscalationDelay, age |-> 0]]
  /\ accidentTimeoutRef' = i

\* the user_settings select returns: s = "present" (a row) or "null"
SettingsReturn(i, s) ==
  /\ det[i] = "settings"
  /\ settings' = [settings EXCEPT ![i] = s]
  /\ IF s = "present"
       THEN \* the user_confirmation fetch is issued
            /\ userAlerts' = [userAlerts EXCEPT ![i] = @ + 1]
            /\ det' = [det EXCEPT ![i] = "alert"]
            /\ UNCHANGED <<timer, accidentTimeoutRef>>
       ELSE /\ ArmTimer(i)
            /\ det' = [det EXCEPT ![i] = "done"]
            /\ UNCHANGED userAlerts
  /\ UNCHANGED <<activeAccident, rendered, isTriggered, created, sea, cancelling, rearm,
                 emergencyAlerts, updates, resolved, sinceResolution>>
  /\ UNCHANGED dataVars

\* the user_confirmation fetch settles: resolves (ok) or rejects
UserAlertReturn(i, ok) ==
  /\ det[i] = "alert"
  /\ IF ok
       THEN /\ ArmTimer(i)
            /\ det' = [det EXCEPT ![i] = "done"]
       ELSE \* catch (error) { console.error(...) }
            /\ det' = [det EXCEPT ![i] = "caught"]
            /\ UNCHANGED <<timer, accidentTimeoutRef>>
  /\ UNCHANGED <<activeAccident, rendered, isTriggered, settings, created, sea,
                 cancelling, rearm, userAlerts, emergencyAlerts, updates, resolved,
                 sinceResolution>>
  /\ UNCHANGED dataVars

\* ---- sendEmergencyAlerts ------------------------------------------------

\* setActiveAccident(null); setTimeout(() => { isTriggered.current = false; }, 5000)
Resolve(i, how) ==
  /\ activeAccident' = NoEvent
  /\ rearm' = ScheduleRearm(rearm)
  /\ resolved' = [resolved EXCEPT ![i] = @ \cup {how}]
  /\ sinceResolution' = 0

\* the escalation timer of invocation i fires and calls sendEmergencyAlerts(i, settings, ...)
TimerFire(i) ==
  /\ timer[i].st = "armed"
  /\ timer[i].rem = 0
  /\ timer' = [timer EXCEPT ![i] = [@ EXCEPT !.st = "fired"]]
  /\ IF settings[i] = "present"
       THEN \* the emergency_alert fetch is issued
            /\ emergencyAlerts' = [emergencyAlerts EXCEPT ![i] = @ + 1]
            /\ sea' = [sea EXCEPT ![i] = "alert"]
            /\ UNCHANGED <<activeAccident, rearm, resolved, sinceResolution>>
       ELSE /\ Resolve(i, "confirmed")
            /\ sea' = [sea EXCEPT ![i] = "done"]
            /\ UNCHANGED emergencyAlerts
  /\ UNCHANGED <<rendered, isTriggered, accidentTimeoutRef, det, settings, created,
                 cancelling, userAlerts, updates>>
  /\ UNCHANGED dataVars

\* the emergency_alert fetch settles: resolves (ok) or rejects
EmergencyAlertReturn(i, ok) ==
  /\ sea[i] = "alert"
  /\ IF ok
       THEN \* the update { status: 'confirmed' } is issued
            sea' = [sea EXCEPT ![i] = "update"]
       ELSE \* the rejection leaves sendEmergencyAlerts and the timer callback
            sea' = [sea EXCEPT ![i] = "rejected"]
  /\ UNCHANGED <<activeAccident, rendered, isTriggered, accidentTimeoutRef, det,
                 settings, created, timer, cancelling, rearm, userAlerts, emergencyAlerts,
                 updates, resolved, sinceResolution>>
  /\ UNCHANGED dataVars

\* the update { status: 'confirmed', emails_sent: true } returns
ConfirmReturn(i) ==
  /\ sea[i] = "update"
  /\ updates' = [updates EXCEPT ![i] = @ \cup {"confirmed"}]
  /\ Resolve(i, "confirmed")
  /\ sea' = [sea EXCEPT ![i] = "done"]
  /\ UNCHANGED <<rendered, isTriggered, accidentTimeoutRef, det, settings, created,
                 timer, cancelling, userAlerts, emergencyAlerts>>
  /\ UNCHANGED dataVars

\* ---- handleCancelAccident -----------------------------------------------

\* if (activeAccident && accidentTimeoutRef.current)
CancelGuard == rendered # NoEvent /\ accidentTimeoutRef # NoEvent

\* handleCancelAccident of the last committed render, up to its await
handleCancelAccident ==
  IF CancelGuard
    THEN \* clearTimeout(accidentTimeoutRef.current); accidentTimeoutRef.current = null;
         \* the update { status: 'cancelled' } of activeAccident.id is issued
         /\ timer' = [timer EXCEPT ![accidentTimeoutRef] =
                         IF @.st = "armed" THEN [st |-> "cleared", rem |-> 0, age |-> 0]
                                           ELSE @]
         /\ accidentTimeoutRef' = NoEvent
         /\ cancelling' = [cancelling EXCEPT ![rendered] = @ + 1]
         /\ UNCHANGED <<activeAccident, rendered, isTriggered, det, settings, created,
                        sea, rearm, userAlerts, emergencyAlerts, updates, resolved,
                        sinceResolution>>
         /\ UNCHANGED dataVars
    ELSE \* the call does nothing
         UNCHANGED vars

\* the update { status: 'cancelled', user_responded: true } of row i returns;
\* detectionService.current.reset() only changes what detectWithHistory returns next
CancelReturn(i) ==
  /\ cancelling[i] > 0
  /\ cancelling' = [cancelling EXCEPT ![i] = @ - 1]
  /\ updates' = [updates EXCEPT ![i] = @ \cup {"cancelled"}]
  /\ Resolve(i, "cancelled")
  /\ UNCHANGED <<rendered, isTriggered, accidentTimeoutRef, det, settings, created,
                 timer, sea, userAlerts, emergencyAlerts>>
  /\ UNCHANGED dataVars

\* ---- timers and rendering -----------------------------------------------

\* the oldest re-arm timer fires: isTriggered.current = false
RearmFire ==
  /\ rearm # <<>>
  /\ Head(rearm) = 0
  /\ rearm' = Tail(rearm)
  /\ isTriggered' = FALSE
  /\ UNCHANGED <<activeAccident, rendered, accidentTimeoutRef, det, settings, created,
                 timer, sea, cancelling, userAlerts, emergencyAlerts, updates, resolved,
                 sinceResolution>>
  /\ UNCHANGED dataVars

TimerDue == \/ \E i \in Ids : timer[i].st = "armed" /\ timer[i].rem = 0
            \/ rearm # <<>> /\ Head(rearm) = 0

\* the remaining times of the outstanding timers
Remaining == {timer[i].rem : i \in {j \in Ids : timer[j].st = "armed"}}
               \cup {rearm[k] : k \in 1..Len(rearm)}

\* time passes until the next outstanding timer is due; a due timer runs and a pending render
\* is committed before more time passes
Advance ==
  /\ Remaining # {}
  /\ ~TimerDue
  /\ rendered = activeAccident
  /\ LET d == CHOOSE r \in Remaining : \A r2 \in Remaining : r <= r2
     IN /\ timer' = [i \in Ids |-> IF timer[i].st = "armed"
                                     THEN [timer[i] EXCEPT !.rem = Elapse(@, d), !.age = @ + d]
                                     ELSE timer[i]]
        /\ rearm' = IF rearm = <<>> THEN <<>>
                     ELSE [k \in 1..Len(rearm) |-> Elapse(rearm[k], d)]
        /\ sinceResolution' = Min(Cooldown, sinceResolution + d)
  /\ UNCHANGED <<activeAccident, rendered, isTriggered, accidentTimeoutRef, det,
                 settings, created, sea, cancelling, userAlerts, emergencyAlerts, updates,
                 resolved>>
  /\ UNCHANGED dataVars

\* React commits a render: handleCancelAccident now closes over the current activeAccident, and
\* the data effect (dependencies [activeAccident, vehicleType]) subscribes a new handleNewData
Render ==
  /\ rendered # activeAccident
  /\ rendered' = activeAccident
  /\ UNCHANGED <<activeAccident, isTriggered, accidentTimeoutRef, det, settings, created,
                 timer, sea, cancelling, rearm, userAlerts, emergencyAlerts, updates, resolved,
                 sinceResolution>>
  /\ UNCHANGED dataVars

Next ==
  \/ \E v \in VehicleTypes, z \in ZValues, r \in BaseResults : Reading(v, z, r)
  \/ \E i \in Ids, ok \in BOOLEAN : InsertReturn(i, ok)
  \/ \E i \in Ids, s \in {"present", "null"} : SettingsReturn(i, s)
  \/ \E i \in Ids, ok \in BOOLEAN : UserAlertReturn(i, ok)
  \/ \E i \in Ids : TimerFire(i)
  \/ \E i \in Ids, ok \in BOOLEAN : EmergencyAlertReturn(i, ok)
  \/ \E i \in Ids : ConfirmReturn(i)
  \/ handleCancelAccident
  \/ \E i \in Ids : CancelReturn(i)
  \/ RearmFire
  \/ Advance
  \/ Render

Spec == Init /\ [][Next]_vars

\* the event loop runs due timers and the continuations of settled calls, external calls
\* return and React commits pending renders; readings and cancellations are up to the environment
FairSpec ==
  /\ Spec
  /\ WF_vars(\E i \in Ids, ok \in BOOLEAN : InsertReturn(i, ok))
  /\ WF_vars(\E i \in Ids, s \in {"present", "null"} : SettingsReturn(i, s))
  /\ WF_vars(\E i \in Ids, ok \in BOOLEAN : UserAlertReturn(i, ok))
  /\ WF_vars(\E i \in Ids : TimerFire(i))
  /\ WF_vars(\E i \in Ids, ok \in BOOLEAN : EmergencyAlertReturn(i, ok))
  /\ WF_vars(\E i \in Ids : ConfirmReturn(i))
  /\ WF_vars(\E i \in Ids : CancelReturn(i))
  /\ WF_vars(RearmFire)
  /\ WF_vars(Advance)
  /\ WF_vars(Render)

TypeOK ==
  /\ activeAccident \in 0..MaxEvents
  /\ rendered \in 0..MaxEvents
  /\ accidentTimeoutRef \in 0..MaxEvents
  /\ isTriggered \in BOOLEAN
  /\ det \in [Ids -> {"idle", "insert", "failed", "settings", "alert", "caught", "done"}]
  /\ sea \in [Ids -> {"idle", "alert", "rejected", "update", "done"}]

\* ---- the decision of handleNewData as a function of its inputs -----------

\* smoothed accelerometer z around the thresholds of the overrides, in thousandths of g
ZGrid == {-1000, -501, -500, -499, -401, -400, -399, -301, -300, -299, 0,
          299, 300, 301, 399, 400, 401, 499, 500, 501, 1000}
\* outputs of detectWithHistory around the dangers of the overrides
BaseGrid == [isAccident : BOOLEAN, dangerPercentage : {0, 50, 79, 80, 81, 89, 90, 91, 100}]

OverrideInit ==
  /\ EscalationInit
  /\ StreamInit(<<>>)
  /\ detectInput \in [vehicleType : VehicleTypes, zValue : ZGrid, result : BaseGrid]
  /\ decision = <<>>
  /\ FilterIdle

\* shouldTrigger and finalDanger as handleNewData computes them before the guard of the trigger
Decide ==
  /\ decision = <<>>
  /\ decision' = <<Combined(detectInput.vehicleType, detectInput.zValue, detectInput.result)>>
  /\ UNCHANGED <<detectInput, escalationVars, streamVars, filterVars>>

OverrideNext == Decide

OverrideSpec == OverrideInit /\ [][OverrideNext]_vars

\* ---- the smoothing of handleNewData -------------------------------------

\* accelerations of one axis, in g: the range of a 16-bit raw value divided by 16384
AccelLevels == -2..2
\* alpha in tenths: the default of lowPassFilter, the smoothAlpha of handleNewData, and 1
Alphas == {1, 3, 10}

\* lowPassFilter with the sign of the correction inverted
lowPassFilterAway(current, previous, alpha) ==
  previous - (alpha * (current - previous)) \div AlphaDen

\* function lowPassFilter(current, previous, alpha), alpha in tenths
lowPassFilter(current, previous, alpha) ==
  previous + (alpha * (current - previous)) \div AlphaDen

FilterInit ==
  /\ EscalationInit
  /\ StreamInit(<<>>)
  /\ OverrideIdle
  /\ rawAccel \in {l * Unit : l \in AccelLevels}
  /\ prevAccel \in {l * Unit : l \in AccelLevels}
  /\ smoothAlpha \in Alphas
  /\ smoothCount = 0

\* prevAccel.current = lowPassFilter(raw.accelerometer, prevAccel.current, smoothAlpha), for
\* one more reading with the same raw value
Smooth ==
  /\ smoothCount < MaxSmooth
  /\ prevAccel' = lowPassFilter(rawAccel, prevAccel, smoothAlpha)
  /\ smoothCount' = smoothCount + 1
  /\ UNCHANGED <<rawAccel, smoothAlpha, escalationVars, streamVars, overrideVars>>

FilterNext == Smooth

FilterSpec == FilterInit /\ [][FilterNext]_vars

\* ---- the data stream and the connection monitor -------------------------

\* the offsets within a heartbeat period at which readings and results arrive
Offsets == {0, 1, 999}
\* the instants that the stream model distinguishes
Instants == {t \in 0..MaxTime : t % HeartbeatPeriod \in Offsets}
\* the rows stored before the mount: none, one stored 2 s before it, one stored 60 s before it
InitialRows == {<<>>, <<-2000>>, <<-60000>>}

StreamSpecInit ==
  /\ EscalationInit
  /\ \E rows \in InitialRows : StreamInit(rows)
  /\ OverrideIdle
  /\ FilterIdle

\* getLatestSensorData(): the most recent row of sensor_data, 0 (null) if there is none
getLatestSensorData == Len(sensorRows)

\* handleNewData(row) on the connection monitor; the row goes on to the smoothing and to
\* detectionService.addReading
handleNewDataStream(row) ==
  /\ lastPacketTimeRef' = now
  /\ isConnected' = TRUE
  /\ applied' = Append(applied, row)

\* heartbeatInterval with a threshold that is included
heartbeatIntervalInclusive ==
  /\ now = heartbeatDue
  /\ LET timeSinceLastPacket == now - lastPacketTimeRef
         shouldBeConnected == timeSinceLastPacket <= Threshold
     IN isConnected' = IF isConnected # shouldBeConnected THEN shouldBeConnected
                        ELSE isConnected
  /\ heartbeatDue' = heartbeatDue + HeartbeatPeriod
  /\ UNCHANGED <<now, lastPacketTimeRef, sensorRows, fetching, applied, effectRuns>>
  /\ UNCHANGED <<escalationVars, overrideVars, filterVars>>

\* the callback of heartbeatInterval
heartbeatInterval ==
  /\ now = heartbeatDue
  /\ LET timeSinceLastPacket == now - lastPacketTimeRef
         shouldBeConnected == timeSinceLastPacket < Threshold
     IN isConnected' = IF isConnected # shouldBeConnected THEN shouldBeConnected
                        ELSE isConnected
  /\ heartbeatDue' = heartbeatDue + HeartbeatPeriod
  /\ UNCHANGED <<now, lastPacketTimeRef, sensorRows, fetching, applied, effectRuns>>
  /\ UNCHANGED <<escalationVars, overrideVars, filterVars>>

\* the device stores a reading and the callback given to subscribeSensorData gets it:
\* handleNewData(newData, false)
subscribeSensorData ==
  /\ Len(sensorRows) < MaxRows
  /\ sensorRows' = Append(sensorRows, now)
  /\ handleNewDataStream(Len(sensorRows) + 1)
  /\ UNCHANGED <<now, heartbeatDue, fetching, effectRuns>>
  /\ UNCHANGED <<escalationVars, overrideVars, filterVars>>

\* a dependency of the data effect changed (setActiveAccident, handleVehicleChange): the effect
\* runs again, calls fetchHistory() up to its await and subscribes again
DataEffect ==
  /\ effectRuns < MaxEffectRuns
  /\ effectRuns' = effectRuns + 1
  /\ fetching' = Append(fetching, getLatestSensorData)
  /\ UNCHANGED <<isConnected, now, lastPacketTimeRef, heartbeatDue, sensorRows, applied>>
  /\ UNCHANGED <<escalationVars, overrideVars, filterVars>>

\* fetchHistory continues after its await with the result of the k-th call in flight
fetchHistory(k) ==
  /\ k \in 1..Len(fetching)
  /\ LET latestData == fetching[k]
     IN IF latestData # 0
          THEN LET dataAge == now - sensorRows[latestData]
               IN /\ handleNewDataStream(latestData)
                  /\ dataAge < FreshAge => isConnected' = TRUE
          ELSE UNCHANGED <<lastPacketTimeRef, isConnected, applied>>
  /\ fetching' = [j \in 1..(Len(fetching) - 1) |-> IF j < k THEN fetching[j]
                                                   ELSE fetching[j + 1]]
  /\ UNCHANGED <<now, heartbeatDue, sensorRows, effectRuns>>
  /\ UNCHANGED <<escalationVars, overrideVars, filterVars>>

\* time passes to the next instant; a due heartbeat runs before more time passes
TimePasses ==
  /\ now < heartbeatDue
  /\ \E t \in Instants : t > now
  /\ now' = CHOOSE t \in Instants : t > now /\ \A u \in Instants : u > now => t <= u
  /\ UNCHANGED <<isConnected, lastPacketTimeRef, heartbeatDue, sensorRows, fetching, applied,
                 effectRuns>>
  /\ UNCHANGED <<escalationVars, overrideVars, filterVars>>

StreamNext ==
  \/ heartbeatInterval
  \/ subscribeSensorData
  \/ DataEffect
  \/ \E k \in 1..MaxEffectRuns : fetchHistory(k)
  \/ TimePasses

StreamSpec == StreamSpecInit /\ [][StreamNext]_vars

\* the connection monitor alone: no row is stored before the mount and the data effect does not
\* run again
HeartbeatNext ==
  \/ heartbeatInterval
  \/ subscribeSensorData
  \/ \E k \in 1..MaxEffectRuns : fetchHistory(k)
  \/ TimePasses

HeartbeatSpec == Init /\ [][HeartbeatNext]_vars

\* ---- properties ---------------------------------------------------------

\* accident i is Pending: its row was created and no resolution of it was made
Pending(i) == created[i] /\ resolved[i] = {}

\* accident i is being created: its insert has not returned
BeingCreated(i) == det[i] = "insert"

\* no step of accident i remains and it can no longer be shown or cancelled
Over(i) ==
  /\ det[i] \in {"failed", "caught", "done"}
  /\ timer[i].st # "armed"
  /\ sea[i] \in {"idle", "rejected", "done"}
  /\ cancelling[i] = 0
  /\ activeAccident # i /\ rendered # i

\* C1: at most one accident is Pending or being created at any time
C1_AtMostOnePending ==
  \A i, j \in Ids :
    (Pending(i) \/ BeingCreated(i)) /\ (Pending(j) \/ BeingCreated(j)) => i = j

\* C2: no accident receives both a 'confirmed' and a 'cancelled' status update
C2_ResolvedOnce ==
  \A i \in Ids : ~({"confirmed", "cancelled"} \subseteq updates[i])

\* C3: once accident i was marked cancelled, no emergency_alert is sent for it any more
C3_NoAlertAfterCancel ==
  [][\A i \in Ids : "cancelled" \in updates[i] => emergencyAlerts'[i] = emergencyAlerts[i]]_vars

\* C4: an accident that became Pending, is over and was never cancelled got exactly one
\* emergency_alert and was marked confirmed
C4_ExactlyOneAlert ==
  \A i \in Ids :
    (created[i] /\ Over(i) /\ "cancelled" \notin resolved[i])
      => (emergencyAlerts[i] = 1 /\ "confirmed" \in updates[i])

\* C5: a new accident is triggered only when at least Cooldown ms have passed since the last
\* resolution
C5_CooldownRespected ==
  [][(\E i \in Ids : det[i] = "idle" /\ det'[i] = "insert") => sinceResolution >= Cooldown]_vars

\* C6: after a failed insert, with no accident active, the guard of the trigger lets the next
\* qualifying reading through
C6_RetryAfterFailedInsert ==
  \A i \in Ids :
    (det[i] = "failed" /\ (\A j \in Ids : j > i => det[j] = "idle")
       /\ activeAccident = NoEvent /\ rendered = NoEvent)
      => TriggerGuard(rendered, TRUE)

\* C7: an accident whose insert produced no row is never active, gets no user_confirmation
\* alert and no escalation timer
C7_NoPendingWithoutRow ==
  \A i \in Ids :
    ~created[i] => /\ activeAccident # i
                   /\ rendered # i
                   /\ userAlerts[i] = 0
                   /\ timer[i].st = "unarmed"
                   /\ accidentTimeoutRef # i

\* C7 witness: an insert failed
C7_Witness ==
  \E i \in Ids : det[i] = "failed" /\ ~created[i] /\ activeAccident = NoEvent

\* C8: when sendEmergencyAlerts has ended, also after a rejected emergency_alert call, it made
\* the local resolution (active accident cleared, re-arm scheduled)
C8_TransitionCompletes ==
  \A i \in Ids : sea[i] \in {"rejected", "done"} => "confirmed" \in resolved[i]

\* C9: an accident that is active is eventually resolved
C9_EventuallyResolved ==
  \A i \in Ids : (activeAccident = i) ~> (resolved[i] # {})

\* C10: as long as accident i is shown as active and is neither escalated nor being cancelled,
\* a call of handleCancelAccident passes its guard
C10_CancelNeverDropped ==
  \A i \in Ids :
    (rendered = i /\ activeAccident = i /\ Pending(i) /\ sea[i] = "idle"
       /\ timer[i].st # "fired" /\ cancelling[i] = 0)
      => CancelGuard

\* the escalation timers that were armed and have neither fired nor been cleared
Outstanding == {i \in Ids : timer[i].st = "armed"}

\* C11: at most one escalation timer is outstanding at any time
C11_OneEscalationTimer == Cardinality(Outstanding) <= 1

\* C12: an emergency_alert of accident i was sent, and accident i was marked confirmed, only
\* after its escalation timer had been armed for EscalationDelay ms
C12_NotBeforeDelay ==
  \A i \in Ids :
    (emergencyAlerts[i] > 0 \/ "confirmed" \in updates[i])
      => (timer[i].st = "fired" /\ timer[i].age >= EscalationDelay)

\* C12 witness: an accident was escalated and marked confirmed
C12_Witness ==
  \E i \in Ids : emergencyAlerts[i] = 1 /\ "confirmed" \in updates[i]

\* C13: while no accident is active, a call of handleCancelAccident does not pass its guard:
\* no step issues a 'cancelled' update (which would be followed by the reset of the detector
\* and a re-arm timer)
C13_CancelWhenIdleIsNoOp ==
  [][activeAccident = NoEvent
       => \A i \in Ids : cancelling'[i] <= cancelling[i]]_vars

\* C14: for a scooter, z below -0.5 decides accident with danger exactly 100, and |z| below 0.4
\* decides accident with danger max(base danger, 80)
C14_ScooterOverrides ==
  (decision # <<>> /\ detectInput.vehicleType = "scooter")
    => LET z == detectInput.zValue
           base == detectInput.result.dangerPercentage
           d == decision[1]
       IN /\ z < -500 => (d.shouldTrigger /\ d.finalDanger = 100)
          /\ (z > -400 /\ z < 400)
               => (d.shouldTrigger /\ d.finalDanger >= 80 /\ d.finalDanger >= base
                     /\ d.finalDanger \in {80, base})

\* C14 witness: a tipped-over scooter with a base danger above 80 was decided
C14_Witness ==
  /\ decision # <<>>
  /\ detectInput.vehicleType = "scooter" /\ detectInput.zValue = 399
  /\ detectInput.result.dangerPercentage = 91 /\ ~detectInput.result.isAccident
  /\ decision[1].shouldTrigger

\* C15: for a car, |z| below 0.3 decides accident with danger max(base danger, 90), which is at
\* least 90
C15_CarOverride ==
  (decision # <<>> /\ detectInput.vehicleType = "car"
     /\ detectInput.zValue > -300 /\ detectInput.zValue < 300)
    => LET base == detectInput.result.dangerPercentage
           d == decision[1]
       IN d.shouldTrigger /\ d.finalDanger >= 90 /\ d.finalDanger >= base
            /\ d.finalDanger \in {90, base}

\* C15 witness: a car lying on its side with a base danger above 90 was decided
C15_Witness ==
  /\ decision # <<>>
  /\ detectInput.vehicleType = "car" /\ detectInput.zValue = -299
  /\ detectInput.result.dangerPercentage = 100 /\ ~detectInput.result.isAccident
  /\ decision[1].shouldTrigger

C16_StrictThreshold ==
  heartbeatDue = now + HeartbeatPeriod
    => /\ now - lastPacketTimeRef = 9999 => isConnected
       /\ now - lastPacketTimeRef \in {10000, 10001} => ~isConnected

\* C16 witness: the heartbeat has just run exactly 10000 ms after a reading
C16_Witness ==
  /\ heartbeatDue = now + HeartbeatPeriod
  /\ applied # <<>>
  /\ now - lastPacketTimeRef = 10000
  /\ ~isConnected

\* C17: once a reading was received and the heartbeat found the stream silent, isConnected stays
\* false in every step in which no new reading is stored
C17_StaysDisconnected ==
  [][(applied # <<>> /\ ~isConnected /\ now - lastPacketTimeRef >= Threshold
        /\ Len(sensorRows') = Len(sensorRows))
       => ~isConnected']_vars

\* C18: the rows are passed to handleNewData once each and in the order in which they were stored
C18_AppliedOnceInOrder ==
  \A j, k \in 1..Len(applied) : j < k => applied[j] < applied[k]

\* C20: when the fetchHistory of the mount loads a reading that is not fresh before any other
\* reading was received, isConnected stays false
C20_StaleLoadStaysDisconnected ==
  [][(effectRuns = 1 /\ applied = <<>> /\ Len(fetching') < Len(fetching)
        /\ fetching[1] # 0 /\ now - sensorRows[fetching[1]] >= FreshAge)
       => ~isConnected']_vars

\* C21: while an accident is being created, Pending or active, the latch isTriggered is set
C21_LatchSetWhileUnresolved ==
  \A i \in Ids :
    (BeingCreated(i) \/ Pending(i) \/ activeAccident = i) => isTriggered

\* no override condition matches: a scooter with -0.5 <= z <= -0.4 or z >= 0.4, a car with
\* |z| >= 0.3
NoOverrideMatches ==
  LET z == detectInput.zValue
  IN IF detectInput.vehicleType = "scooter"
       THEN (z >= -500 /\ z <= -400) \/ (Abs(z) >= 400 /\ z >= -500)
       ELSE Abs(z) >= 300

\* C22: the overrides only escalate: the decision is accident whenever the base result is, its
\* danger is not below the base danger and stays in 0..100, and it equals the base result when
\* no override condition matches
C22_OverridesOnlyEscalate ==
  decision # <<>>
    => LET base == detectInput.result
           d == decision[1]
       IN /\ base.isAccident => d.shouldTrigger
          /\ d.finalDanger >= base.dangerPercentage
          /\ base.dangerPercentage \in 0..100 => d.finalDanger \in 0..100
          /\ NoOverrideMatches
               => (d.shouldTrigger = base.isAccident
                     /\ d.finalDanger = base.dangerPercentage)

\* C22 witness: a scooter at z = -0.5 exactly, where no override matches, was decided and the
\* base result came through
C22_Witness ==
  /\ decision # <<>>
  /\ detectInput.vehicleType = "scooter" /\ detectInput.zValue = -500
  /\ ~detectInput.result.isAccident /\ detectInput.result.dangerPercentage = 50
  /\ ~decision[1].shouldTrigger /\ decision[1].finalDanger = 50

====
